---- MODULE Spec2Model ----
(***************************************************************************)
(* Model of src/script.js: the TrafficVisualizer engine (road registry,    *)
(* vehicle collection, entry admission, car-following physics, junction    *)
(* transition) together with the scenario code that drives it (the Braess  *)
(* router of initMod2 and the viz.updateSpeed calls of updateMod2 /        *)
(* initMod4).                                                              *)
(*                                                                         *)
(* Numbers.  progress is a JavaScript double; here it is a fixed-point     *)
(* integer counted in units of 1/One (One = 1000 stands for the literal    *)
(* 1.0).  A distance d of the source is the integer d * One.  The road     *)
(* lengths of QueueKinds all divide 50 * One, and the base speed 0.01 is   *)
(* the integer BaseSpeed = One \div 100, so every product and quotient the *)
(* source computes is exact in the model (floating-point rounding is not   *)
(* modelled).  roadIndex is 0-based as in the source; sequences are        *)
(* 1-based, so road i is roads[i + 1].                                     *)
(*                                                                         *)
(* Object identity.  A vehicle is a JavaScript object held in this.cars;    *)
(* push appends at the end and splice(i, 1) keeps the order of the rest,   *)
(* so a vehicle is followed from state to state by its index.             *)
(***************************************************************************)
EXTENDS Integers, Sequences, FiniteSets, TLC

VARIABLES roads, cars, onCarFinishRoad, last, calls

vars == <<roads, cars, onCarFinishRoad, last, calls>>

---------------------------------------------------------------------------
(* Bounds of the model *)
MaxCars == 2
MaxRoads == 2
MaxQueue == 3

(* Program constants *)
One == 1000
BaseSpeed == 10
carLength == 35
minGap == 20
SafeMargin == 15
BrakeZone == 60
BrakeNum == 3
BrakeDen == 10

(* Inputs *)
RoadIds == {"Hwy_Top", "Single_Top"}
RoadKinds == {[len |-> 50, speedFactor |-> 40], [len |-> 100, speedFactor |-> 40],
              [len |-> 100, speedFactor |-> 0]}
QueueKinds == RoadKinds \cup {[len |-> 500, speedFactor |-> 10], [len |-> 25, speedFactor |-> 40]}
Factors == {0, 40}
Colors == {"#e74c3c"}
Routers == {"null", "ext", "mod2"}

(* let m2_shortcut = false (line 246); this model never toggles it *)
m2_shortcut == FALSE

NoCar == [given |-> FALSE, color |-> "", speed |-> 0]
ExistingCars == {[given |-> TRUE, color |-> "#2980b9", speed |-> 7]}

---------------------------------------------------------------------------
(* Helpers over sequences *)

(* cars.splice(i, 2) *)
SpliceTwo(cs, i) == SubSeq(cs, 1, i - 1) \o SubSeq(cs, i + 2, Len(cs))

(* cars.splice(i, 1) *)
Splice(cs, i) == SubSeq(cs, 1, i - 1) \o SubSeq(cs, i + 1, Len(cs))

(* roads.findLastIndex(r => r.id === roadId) *)
FindLastIndex(rs, roadId) ==
    IF \E i \in 1 .. Len(rs) : rs[i].id = roadId
    THEN (CHOOSE i \in 1 .. Len(rs) :
             /\ rs[i].id = roadId
             /\ \A j \in (i + 1) .. Len(rs) : rs[j].id # roadId) - 1
    ELSE -1

(* roads.findIndex(r => r.id === roadId): first match, -1 when none *)
FindIndex(rs, roadId) ==
    IF \E i \in 1 .. Len(rs) : rs[i].id = roadId
    THEN (CHOOSE i \in 1 .. Len(rs) :
             /\ rs[i].id = roadId
             /\ \A j \in 1 .. (i - 1) : rs[j].id # roadId) - 1
    ELSE -1

---------------------------------------------------------------------------
(* spawnCar *)

(* the scan of lines 52-60: state <<minProg, lastCar>>, lastCar = 0 is null *)
RECURSIVE ScanLastCar(_, _, _, _, _)
ScanLastCar(cs, roadIndex, k, minProg, lastCar) ==
    IF k > Len(cs) THEN lastCar
    ELSE IF cs[k].roadIndex = roadIndex /\ cs[k].progress < minProg
         THEN ScanLastCar(cs, roadIndex, k + 1, cs[k].progress, k)
         ELSE ScanLastCar(cs, roadIndex, k + 1, minProg, lastCar)

LastCar(cs, roadIndex) == ScanLastCar(cs, roadIndex, 1, One, 0)

(* lines 62-68: TRUE when the entrance is blocked *)
EntryBlocked(rs, cs, roadIndex) ==
    LET lastCar == LastCar(cs, roadIndex) IN
    /\ lastCar # 0
    /\ cs[lastCar].progress * rs[roadIndex + 1].len < (carLength + minGap) * One

NewCarIgnoresCarry(roadIndex, color, existingCar) ==
    [roadIndex |-> roadIndex, progress |-> 0, color |-> color, speed |-> 0]

NewCar(roadIndex, color, existingCar) ==
    [roadIndex |-> roadIndex,
     progress |-> 0,
     color |-> IF existingCar.given THEN existingCar.color ELSE color,
     speed |-> IF existingCar.given THEN existingCar.speed ELSE 0]

(* spawnCar without the entrance check of lines 51-68 *)
SpawnCarNoCheck(rs, cs, roadId, color, existingCar) ==
    LET roadIndex == FindIndex(rs, roadId) IN
    IF roadIndex = -1 THEN [ret |-> FALSE, cars |-> cs]
    ELSE [ret |-> TRUE,
          cars |-> Append(cs, NewCar(roadIndex, color, existingCar))]

SpawnCarPushFirst(rs, cs, roadId, color, existingCar) ==
    LET roadIndex == FindIndex(rs, roadId) IN
    IF roadIndex = -1 THEN [ret |-> FALSE, cars |-> cs]
    ELSE [ret |-> ~EntryBlocked(rs, cs, roadIndex),
          cars |-> Append(cs, NewCar(roadIndex, color, existingCar))]

(* spawnCar(roadId, color, existingCar): the returned boolean and the    *)
(* vehicle collection afterwards                                         *)
SpawnCar(rs, cs, roadId, color, existingCar) ==
    LET roadIndex == FindIndex(rs, roadId) IN
    IF roadIndex = -1 THEN [ret |-> FALSE, cars |-> cs]
    ELSE IF EntryBlocked(rs, cs, roadIndex) THEN [ret |-> FALSE, cars |-> cs]
    ELSE [ret |-> TRUE,
          cars |-> Append(cs, NewCar(roadIndex, color, existingCar))]

---------------------------------------------------------------------------
(* animate, phase 2: physics *)

RECURSIVE SortAsc(_, _)
SortAsc(cs, S) ==
    IF S = {} THEN <<>>
    ELSE LET first == CHOOSE k \in S : \A j \in S :
                          \/ cs[k].progress < cs[j].progress
                          \/ (cs[k].progress = cs[j].progress /\ k <= j)
         IN <<first>> \o SortAsc(cs, S \ {first})

(* roadCars.sort((a, b) => b.progress - a.progress) over the indices in S: *)
(* descending progress, equal progress kept in collection order (stable)   *)
RECURSIVE SortDesc(_, _)
SortDesc(cs, S) ==
    IF S = {} THEN <<>>
    ELSE LET first == CHOOSE k \in S : \A j \in S :
                          \/ cs[k].progress > cs[j].progress
                          \/ (cs[k].progress = cs[j].progress /\ k <= j)
         IN <<first>> \o SortDesc(cs, S \ {first})

(* roadCars without the filter on roadIndex *)
RoadCarsUnfiltered(cs, rIdx) == SortDesc(cs, 1 .. Len(cs))

RoadCars(cs, rIdx) == SortDesc(cs, {k \in 1 .. Len(cs) : cs[k].roadIndex = rIdx})

(* the loop body without the "else if (dist < safeDist + 60)" branch *)
FollowNoBrake(road, progress, hasAhead, aheadProgress) ==
    LET base == BaseSpeed * road.speedFactor
        dist == (aheadProgress - progress) * road.len
        safeDist == (carLength + SafeMargin) * One
    IN  IF hasAhead /\ dist < safeDist
        THEN (aheadProgress * road.len - safeDist) \div road.len
        ELSE progress + base

(* the loop body with "car.progress = targetSpeed" for "+=" *)
FollowAssigns(road, progress, hasAhead, aheadProgress) ==
    LET base == BaseSpeed * road.speedFactor
        dist == (aheadProgress - progress) * road.len
        safeDist == (carLength + SafeMargin) * One
    IN  IF hasAhead /\ dist < safeDist
        THEN 0
        ELSE IF hasAhead /\ dist < safeDist + BrakeZone * One
        THEN (base * BrakeNum) \div BrakeDen
        ELSE base

(* one iteration of the loop of lines 108-131: the new progress of        *)
(* roadCars[i] given the (already updated) vehicle ahead                   *)
Follow(road, progress, hasAhead, aheadProgress) ==
    LET base == BaseSpeed * road.speedFactor
        myPos == progress * road.len
        aheadPos == aheadProgress * road.len
        dist == aheadPos - myPos
        safeDist == (carLength + SafeMargin) * One
    IN  IF hasAhead /\ dist < safeDist
        THEN ((aheadPos - safeDist) \div road.len) + 0
        ELSE IF hasAhead /\ dist < safeDist + BrakeZone * One
        THEN progress + ((base * BrakeNum) \div BrakeDen)
        ELSE progress + base

(* the loop of lines 108-131 from roadCars[i]; each intermediate value is *)
(* bound once (x \in {e}) before it is used                               *)
RECURSIVE PhysRoad(_, _, _, _)
PhysRoad(road, cs, order, i) ==
    IF i > Len(order) THEN cs
    ELSE CHOOSE out \in
           {PhysRoad(road, moved, order, i + 1) :
              moved \in {[cs EXCEPT ![order[i]].progress = p] :
                 p \in {Follow(road, cs[order[i]].progress, i > 1,
                                IF i > 1 THEN cs[order[i - 1]].progress ELSE 0)}}} : TRUE

(* this.roads.forEach((road, rIdx) => ...), lines 104-132 *)
RECURSIVE PhysFrom(_, _, _)
PhysFrom(rs, cs, r) ==
    IF r > Len(rs) THEN cs
    ELSE CHOOSE out \in
           {PhysFrom(rs, done, r + 1) :
              done \in {PhysRoad(rs[r], cs, order, 1) :
                 order \in {RoadCars(cs, r - 1)}}} : TRUE

Physics(rs, cs) == PhysFrom(rs, cs, 1)

---------------------------------------------------------------------------
(* animate, phase 3: transition *)

(* the object passed as existingCar when a vehicle is carried over *)
Carry(car) == [given |-> TRUE, color |-> car.color, speed |-> car.speed]

(* the router installed by initMod2 (lines 270-290) *)
Mod2Router(rs, cs, shortcut, car, finishedRoadId) ==
    IF finishedRoadId \in {"Hwy_Top", "Connector"}
    THEN SpawnCar(rs, cs, "Single_Top", car.color, Carry(car))
    ELSE IF finishedRoadId = "Single_Bot"
    THEN IF shortcut
         THEN SpawnCar(rs, cs, "Connector", car.color, Carry(car))
         ELSE SpawnCar(rs, cs, "Hwy_Bot", car.color, Carry(car))
    ELSE [ret |-> TRUE, cars |-> cs]

(* this.onCarFinishRoad(car, road.id), line 145.  "ext" is a router that   *)
(* decides on its own and touches nothing: it returns TRUE for the         *)
(* vehicles whose index is in yes.                                         *)
CallRouter(router, rs, cs, shortcut, yes, i, roadId) ==
    IF router = "mod2" THEN Mod2Router(rs, cs, shortcut, cs[i], roadId)
    ELSE [ret |-> i \in yes, cars |-> cs]

ParkKeepsProgress(car) == [car EXCEPT !.speed = 0]

(* the refusal branch with "car.progress = 0" for "car.progress = 1" *)
ParkAtStart(car) == [car EXCEPT !.progress = 0, !.speed = 0]

(* the vehicle left in place after a refusal, lines 154-155 *)
Park(car) == [car EXCEPT !.progress = One, !.speed = 0]

(* what the step did with the vehicle at index idx: asked = the router was *)
(* invoked (with roadId), ret = its answer (TRUE when there is no router), *)
(* placed = the router appended a vehicle.                                 *)
Outcome(idx, roadId, asked, ret, placed) ==
    [idx |-> idx, roadId |-> roadId, asked |-> asked, ret |-> ret, placed |-> placed]

(* the loop of lines 135-158 from index i (1-based) downwards *)
RECURSIVE TransPass(_, _, _, _, _, _, _)
TransPass(router, rs, cs, i, shortcut, yes, log) ==
    IF i < 1 THEN [cars |-> cs, calls |-> log]
    ELSE LET car == cs[i]
             roadId == rs[car.roadIndex + 1].id
         IN  IF car.progress >= One
             THEN IF router = "null"
                  THEN TransPass(router, rs, Splice(cs, i), i - 1, shortcut, yes,
                                 Append(log, Outcome(i, roadId, FALSE, TRUE, FALSE)))
                  ELSE CHOOSE out \in
                         {LET entry == Outcome(i, roadId, TRUE, r.ret, Len(r.cars) > Len(cs))
                          IN  IF r.ret
                              THEN TransPass(router, rs, Splice(r.cars, i), i - 1,
                                             shortcut, yes, Append(log, entry))
                              ELSE TransPass(router, rs, [r.cars EXCEPT ![i] = Park(car)],
                                             i - 1, shortcut, yes, Append(log, entry)) :
                            r \in {CallRouter(router, rs, cs, shortcut, yes, i, roadId)}} : TRUE
             ELSE TransPass(router, rs, cs, i - 1, shortcut, yes, log)

(* the loop written forwards, "for (let i = 0; i < this.cars.length; i++)": *)
(* a removal shifts the next vehicle into the slot just examined            *)
RECURSIVE TransForward(_, _, _, _, _, _, _)
TransForward(router, rs, cs, i, shortcut, yes, log) ==
    IF i > Len(cs) THEN [cars |-> cs, calls |-> log]
    ELSE IF cs[i].progress >= One
         THEN CHOOSE out \in
                {IF r.ret
                 THEN TransForward(router, rs, Splice(r.cars, i), i + 1, shortcut, yes,
                                   Append(log, Outcome(i, rs[cs[i].roadIndex + 1].id,
                                                       router # "null", TRUE,
                                                       Len(r.cars) > Len(cs))))
                 ELSE TransForward(router, rs, [r.cars EXCEPT ![i] = Park(cs[i])], i + 1,
                                   shortcut, yes,
                                   Append(log, Outcome(i, rs[cs[i].roadIndex + 1].id,
                                                       TRUE, FALSE, FALSE))) :
                   r \in {IF router = "null" THEN [ret |-> TRUE, cars |-> cs]
                          ELSE CallRouter(router, rs, cs, shortcut, yes, i,
                                          rs[cs[i].roadIndex + 1].id)}} : TRUE
         ELSE TransForward(router, rs, cs, i + 1, shortcut, yes, log)

TransitionForward(router, rs, cs, shortcut, yes) ==
    TransForward(router, rs, cs, 1, shortcut, yes, <<>>)

Transition(router, rs, cs, shortcut, yes) ==
    TransPass(router, rs, cs, Len(cs), shortcut, yes, <<>>)

---------------------------------------------------------------------------
Init ==
    /\ roads = <<>>
    /\ cars = <<>>
    /\ onCarFinishRoad = "null"
    /\ last = [op |-> "new", roadId |-> "", color |-> "", existingCar |-> NoCar,
               factor |-> 0, ret |-> FALSE, fault |-> FALSE]
    /\ calls = <<>>

(* last: the operation that ran last; for spawnCar and updateSpeed its    *)
(* arguments, for spawnCar the value it returned; fault = the call threw  *)
Did(op, ret, fault) ==
    [op |-> op, roadId |-> "", color |-> "", existingCar |-> NoCar,
     factor |-> 0, ret |-> ret, fault |-> fault]

DidSpawn(roadId, color, existingCar, ret) ==
    [op |-> "spawnCar", roadId |-> roadId, color |-> color,
     existingCar |-> existingCar, factor |-> 0, ret |-> ret, fault |-> FALSE]

(* addRoad with "this.roads = [road]" for the push *)
addRoadReplaces ==
    \E id \in RoadIds, kind \in RoadKinds :
        /\ Len(roads) < MaxRoads
        /\ roads' = <<[id |-> id, len |-> kind.len, speedFactor |-> kind.speedFactor]>>
        /\ last' = Did("addRoad", FALSE, FALSE)
        /\ calls' = <<>>
        /\ UNCHANGED <<cars, onCarFinishRoad>>

(* addRoad(id, x1, y1, x2, y2, color, width, initialSpeed), lines 31-43 *)
addRoad ==
    \E id \in RoadIds, kind \in RoadKinds :
        /\ Len(roads) < MaxRoads
        /\ roads' = Append(roads, [id |-> id, len |-> kind.len,
                                   speedFactor |-> kind.speedFactor])
        /\ last' = Did("addRoad", FALSE, FALSE)
        /\ calls' = <<>>
        /\ UNCHANGED <<cars, onCarFinishRoad>>

(* a call of spawnCar by scenario code (the setInterval callbacks), while *)
(* the collection holds fewer than cap vehicles                           *)
SpawnUpTo(cap) ==
    \E roadId \in RoadIds \cup {"nowhere"}, color \in Colors,
       existingCar \in {NoCar} \cup ExistingCars :
        LET r == SpawnCar(roads, cars, roadId, color, existingCar) IN
        /\ Len(cars) < cap
        /\ cars' = r.cars
        /\ last' = DidSpawn(roadId, color, existingCar, r.ret)
        /\ calls' = <<>>
        /\ UNCHANGED <<roads, onCarFinishRoad>>

spawnCar == SpawnUpTo(MaxCars)

(* viz.onCarFinishRoad = ..., lines 17 and 270 *)
setRouter ==
    \E router \in Routers :
        /\ router # onCarFinishRoad
        /\ onCarFinishRoad' = router
        /\ last' = Did("setRouter", FALSE, FALSE)
        /\ calls' = <<>>
        /\ UNCHANGED <<roads, cars>>

(* one frame: animate(), lines 80-179 (drawing left out) *)
animate ==
    \E ph \in {Physics(roads, cars)} :
    \E yes \in (IF onCarFinishRoad = "ext"
                THEN SUBSET {k \in 1 .. Len(ph) : ph[k].progress >= One} ELSE {{}}) :
    \E r \in {Transition(onCarFinishRoad, roads, ph, m2_shortcut, yes)} :
        /\ cars' = r.cars
        /\ calls' = r.calls
        /\ last' = Did("animate", FALSE, FALSE)
        /\ UNCHANGED <<roads, onCarFinishRoad>>

(* viz.updateSpeed(id, factor), as called by updateMod2 (lines 328-345) and *)
(* slider.oninput (lines 394-395).  TrafficVisualizer (lines 4-180) defines *)
(* no updateSpeed, so the call throws "viz.updateSpeed is not a function"   *)
(* and nothing is changed.                                                  *)
updateSpeed ==
    \E id \in RoadIds \cup {"nowhere"}, factor \in Factors :
        /\ last' = [Did("updateSpeed", FALSE, TRUE) EXCEPT !.roadId = id, !.factor = factor]
        /\ calls' = <<>>
        /\ UNCHANGED <<roads, cars, onCarFinishRoad>>

Next == addRoad \/ spawnCar \/ setRouter \/ updateSpeed \/ animate

Spec == Init /\ [][Next]_vars

(* One road with a longer queue: the engine after the constructor and one *)
(* addRoad (as in initMod1, lines 200-204); from there spawnCar calls on   *)
(* that road, router assignments and frames.                               *)
InitQueue ==
    /\ \E kind \in QueueKinds :
          roads = <<[id |-> "Hwy_Top", len |-> kind.len, speedFactor |-> kind.speedFactor]>>
    /\ cars = <<>>
    /\ onCarFinishRoad = "null"
    /\ last = Did("addRoad", FALSE, FALSE)
    /\ calls = <<>>

spawnQueue ==
    \E color \in Colors :
        LET r == SpawnCar(roads, cars, "Hwy_Top", color, NoCar) IN
        /\ Len(cars) < MaxQueue
        /\ cars' = r.cars
        /\ last' = DidSpawn("Hwy_Top", color, NoCar, r.ret)
        /\ calls' = <<>>
        /\ UNCHANGED <<roads, onCarFinishRoad>>

NextQueue == spawnQueue \/ setRouter \/ animate

SpecQueue == InitQueue /\ [][NextQueue]_vars

(* requestAnimationFrame(this.animate) at the end of every frame (line    *)
(* 178) and in the constructor (line 21): frames keep coming.             *)
FairQueue == SpecQueue /\ WF_vars(animate)

---------------------------------------------------------------------------
(* Vocabulary of the properties *)

OnRoad(cs, rIdx) == {k \in 1 .. Len(cs) : cs[k].roadIndex = rIdx}

MinProgress(cs, rIdx) ==
    CHOOSE p \in {cs[k].progress : k \in OnRoad(cs, rIdx)} :
        \A k \in OnRoad(cs, rIdx) : p <= cs[k].progress

RequiredSpace == (carLength + minGap) * One
SafeDist == (carLength + SafeMargin) * One

(* one frame of free-flow movement on a road, as a distance *)
FrameMove(road) == BaseSpeed * road.speedFactor * road.len

(* the state is the end of a frame *)
FrameEnd == last.op = "animate"

(* the index after the step of the vehicle that had index i before it and *)
(* was not removed: splice(i, 1) shifts the vehicles behind i down by one  *)
NewIndex(log, i) == i - Cardinality({n \in 1 .. Len(log) : log[n].ret /\ log[n].idx < i})

(* the vehicle at index k stands at the junction after a refusal *)
Pinned(cs, k) == cs[k].progress = One /\ cs[k].speed = 0

(* C1: a spawnCar on a road that holds at least one vehicle returns true   *)
(* exactly when the rearmost vehicle of that road is at distance >= 55.    *)
C1_AdmissionIff ==
    [][(last'.op = "spawnCar" /\ FindIndex(roads, last'.roadId) # -1
          /\ OnRoad(cars, FindIndex(roads, last'.roadId)) # {})
        => LET rIdx == FindIndex(roads, last'.roadId) IN
           (last'.ret <=> MinProgress(cars, rIdx) * roads[rIdx + 1].len >= RequiredSpace)]_vars

(* C2: at the end of every frame two vehicles of one road are at least the *)
(* safe following distance apart, up to less than one frame's movement.    *)
C2_NoOverlap ==
    FrameEnd =>
        \A j, k \in 1 .. Len(cars) :
            (cars[j].roadIndex = cars[k].roadIndex /\ cars[j].progress < cars[k].progress)
            => LET road == roads[cars[j].roadIndex + 1]
                   gap == (cars[k].progress - cars[j].progress) * road.len
               IN gap >= SafeDist \/ SafeDist - gap < FrameMove(road)

(* the spawnCar that ran last named a registered road *)
SpawnedOn(rIdx) ==
    last.op = "spawnCar" /\ rIdx # -1 /\ rIdx = FindIndex(roads, last.roadId)

(* the step's outcomes: the indices removed and the number of vehicles the *)
(* router appended                                                         *)
Removed(log) == {log[n].idx : n \in {m \in 1 .. Len(log) : log[m].ret}}
Refused(log) == {log[n].idx : n \in {m \in 1 .. Len(log) : ~log[m].ret}}
NumPlaced(log) == Cardinality({n \in 1 .. Len(log) : log[n].placed})

(* C3: a vehicle parked at the junction after a refusal is asked about     *)
(* again in every later frame and, when refused again, is still on its     *)
(* road with progress exactly 1 and speed 0.                               *)
C3_PinnedStays ==
    [][last'.op = "animate" =>
        \A k \in 1 .. Len(cars) :
            (Pinned(cars, k) /\ onCarFinishRoad # "null") =>
                \E n \in 1 .. Len(calls') :
                    /\ calls'[n].idx = k
                    /\ calls'[n].asked
                    /\ ~calls'[n].ret =>
                          LET k2 == NewIndex(calls', k) IN
                          /\ k2 \in 1 .. Len(cars')
                          /\ cars'[k2].roadIndex = cars[k].roadIndex
                          /\ Pinned(cars', k2)]_vars

(* C4: a spawnCar that returns false (unknown road id, or congested entry) *)
(* leaves the vehicle collection and the road registry as they were and    *)
(* raises no fault.                                                        *)
C4_FailedSpawnNoChange ==
    [][(last'.op = "spawnCar" /\ ~last'.ret)
        => (cars' = cars /\ roads' = roads /\ onCarFinishRoad' = onCarFinishRoad
            /\ ~last'.fault)]_vars

C4_Witness ==
    /\ last.op = "spawnCar" /\ ~last.ret
    /\ FindIndex(roads, last.roadId) # -1
    /\ Len(cars) > 0

(* C5: a spawnCar that returns true appends exactly one vehicle at the end *)
(* of the collection, on the (first) road with the given id, at progress   *)
(* 0, with the colour and speed of existingCar when one is given and the   *)
(* given colour and speed 0 otherwise; nothing else changes.  On a road    *)
(* without vehicles spawnCar always returns true.                          *)
C5_SpawnAppends ==
    [][last'.op = "spawnCar" =>
        LET rIdx == FindIndex(roads, last'.roadId) IN
        /\ last'.ret =>
              /\ rIdx # -1
              /\ roads[rIdx + 1].id = last'.roadId
              /\ roads' = roads
              /\ cars' = cars \o
                    <<[roadIndex |-> rIdx, progress |-> 0,
                       color |-> IF last'.existingCar = NoCar THEN last'.color
                                 ELSE last'.existingCar.color,
                       speed |-> IF last'.existingCar = NoCar THEN 0
                                 ELSE last'.existingCar.speed]>>
        /\ (rIdx # -1 /\ OnRoad(cars, rIdx) = {}) => last'.ret]_vars

C5_Witness ==
    /\ last.op = "spawnCar" /\ last.ret
    /\ Len(cars) = 2
    /\ last.existingCar # NoCar /\ last.existingCar.color # last.color
    /\ cars[2].progress = 0 /\ cars[2].speed = 7 /\ cars[2].color # cars[1].color
    /\ cars[1].roadIndex = cars[2].roadIndex

(* C7: the collection changes in two ways only.  A spawnCar that returns   *)
(* true adds one vehicle; a step removes only vehicles that finished their *)
(* road (progress >= 1 after the physics) and were let go (no router, or   *)
(* the router returned true); the step adds only what the router placed,   *)
(* one vehicle for one removed, so a placement leaves the count unchanged. *)
C7_NoSpontaneousChange ==
    [][/\ last'.op \notin {"spawnCar", "animate"} => cars' = cars
       /\ last'.op = "spawnCar" =>
             /\ Len(cars') = Len(cars) + (IF last'.ret THEN 1 ELSE 0)
             /\ SubSeq(cars', 1, Len(cars)) = cars
       /\ last'.op = "animate" =>
             LET ph == Physics(roads, cars) IN
             /\ \A k \in Removed(calls') : k \in 1 .. Len(cars) /\ ph[k].progress >= One
             /\ \A n \in 1 .. Len(calls') :
                   /\ calls'[n].ret => (onCarFinishRoad = "null" \/ calls'[n].asked)
                   /\ calls'[n].placed => calls'[n].ret
             /\ Len(cars') = Len(cars) - Cardinality(Removed(calls')) + NumPlaced(calls')
             /\ \A k \in (1 .. Len(cars)) \ Removed(calls') :
                   /\ NewIndex(calls', k) \in 1 .. Len(cars')
                   /\ cars'[NewIndex(calls', k)].roadIndex = cars[k].roadIndex
                   /\ cars'[NewIndex(calls', k)].color = cars[k].color
             /\ \A k \in 1 .. Len(cars') :
                   k > Len(cars) - Cardinality(Removed(calls')) => cars'[k].progress = 0
      ]_vars

(* a step in which the router placed a finishing vehicle on the next road *)
C7_Witness ==
    /\ FrameEnd
    /\ \E n \in 1 .. Len(calls) : calls[n].placed /\ calls[n].ret
    /\ Len(cars) = 2

(* C8: in a step the router, when there is one, is invoked exactly once    *)
(* for each vehicle with progress >= 1 after the physics, with the id of   *)
(* the vehicle's road, and for no other vehicle; without a router or on    *)
(* true the vehicle is removed in that step, on false it stays with        *)
(* progress exactly 1 and speed 0; without a router no vehicle has         *)
(* progress >= 1 when the step ends.                                       *)
C8_JunctionProtocol ==
    [][last'.op = "animate" =>
        LET ph == Physics(roads, cars)
            gone == Removed(calls')
        IN
        /\ \A k \in 1 .. Len(cars) :
              Cardinality({n \in 1 .. Len(calls') : calls'[n].idx = k})
                = (IF ph[k].progress >= One THEN 1 ELSE 0)
        /\ \A n \in 1 .. Len(calls') :
              /\ calls'[n].idx \in 1 .. Len(cars)
              /\ calls'[n].asked <=> onCarFinishRoad # "null"
              /\ calls'[n].roadId = roads[cars[calls'[n].idx].roadIndex + 1].id
              /\ onCarFinishRoad = "null" => calls'[n].ret
        /\ Len(cars') = Len(cars) - Cardinality(gone) + NumPlaced(calls')
        /\ \A k \in (1 .. Len(cars)) \ gone :
              /\ NewIndex(calls', k) \in 1 .. Len(cars')
              /\ cars'[NewIndex(calls', k)] =
                    (IF k \in Refused(calls')
                     THEN [ph[k] EXCEPT !.progress = One, !.speed = 0]
                     ELSE ph[k])
        /\ onCarFinishRoad = "null" =>
              \A k \in 1 .. Len(cars') : cars'[k].progress < One]_vars

(* a step in which one vehicle was refused and another let go *)
C8_Witness ==
    /\ FrameEnd
    /\ \E n, m \in 1 .. Len(calls) : calls[n].asked /\ calls[n].ret /\ ~calls[m].ret
    /\ \E k \in 1 .. Len(cars) : Pinned(cars, k)

(* C9 as amended: vehicles of one road never change order.  The          *)
(* collection holds the vehicles of a road in road order (no vehicle is    *)
(* ahead of one that precedes it in the collection); a step keeps a        *)
(* vehicle that was strictly ahead at least level, after the physics and   *)
(* at the end of the step; without a router every vehicle whose progress  *)
(* is >= 1 after the physics is removed in that step; and a follower is    *)
(* set to its leader's position minus the safe distance exactly in the     *)
(* frames where its distance to the leader, measured after the leader has  *)
(* moved, is below the safe distance (otherwise it does not move back).    *)
C9_NoOvertaking ==
    [][/\ \A j, k \in 1 .. Len(cars') :
            (j < k /\ cars'[j].roadIndex = cars'[k].roadIndex)
            => cars'[j].progress >= cars'[k].progress
       /\ last'.op = "animate" =>
            LET ph == Physics(roads, cars) IN
            /\ \A j, k \in 1 .. Len(cars) :
                 (cars[j].roadIndex = cars[k].roadIndex
                    /\ cars[j].progress > cars[k].progress)
                 => /\ ph[j].progress >= ph[k].progress
                    /\ {j, k} \cap Removed(calls') = {} =>
                         cars'[NewIndex(calls', j)].progress
                           >= cars'[NewIndex(calls', k)].progress
            /\ onCarFinishRoad = "null" =>
                 \A k \in 1 .. Len(cars) : ph[k].progress >= One => k \in Removed(calls')
            /\ \A j, k \in 1 .. Len(cars) :
                 (/\ j < k /\ cars[j].roadIndex = cars[k].roadIndex
                  /\ \A m \in (j + 1) .. (k - 1) : cars[m].roadIndex # cars[j].roadIndex)
                 => LET len == roads[cars[k].roadIndex + 1].len IN
                    /\ IF (ph[j].progress - cars[k].progress) * len < SafeDist
                       THEN ph[k].progress * len = ph[j].progress * len - SafeDist
                       ELSE ph[k].progress >= cars[k].progress
                    /\ k \notin (Removed(calls') \cup Refused(calls')) =>
                         cars'[NewIndex(calls', k)].progress = ph[k].progress
      ]_vars

(* a step without router that removed a leader and left its follower *)
C9_Witness ==
    /\ FrameEnd /\ onCarFinishRoad = "null"
    /\ \E n \in 1 .. Len(calls) : calls[n].idx = 1 /\ calls[n].ret
    /\ Len(cars) >= 2
    /\ cars[1].roadIndex = cars[2].roadIndex /\ cars[1].progress > cars[2].progress

(* C9 as stated: no overtaking and, from two vehicles at progress 1.0 and  *)
(* 0.9 without router, the step removes the leader and clamps the follower *)
(* to the leader's position minus the safe distance.                       *)
C9_FollowerClamped ==
    [][last'.op = "animate" =>
        /\ \A j, k \in (1 .. Len(cars)) \ Removed(calls') :
             (cars[j].roadIndex = cars[k].roadIndex /\ cars[j].progress > cars[k].progress)
             => cars'[NewIndex(calls', j)].progress >= cars'[NewIndex(calls', k)].progress
        /\ (/\ onCarFinishRoad = "null" /\ Len(cars) = 2
            /\ cars[1].roadIndex = cars[2].roadIndex
            /\ cars[1].progress = One /\ cars[2].progress = (9 * One) \div 10)
           => LET ph == Physics(roads, cars)
                  road == roads[cars[1].roadIndex + 1]
              IN /\ Removed(calls') = {1}
                 /\ Len(cars') = 1
                 /\ cars'[1].progress * road.len = ph[1].progress * road.len - SafeDist
      ]_vars

(* C10: updateSpeed(id, factor) raises no fault, sets speedFactor of the   *)
(* road with that id to factor, leaves the other roads and every vehicle   *)
(* unchanged, and changes nothing when no road has the id.                 *)
C10_UpdateSpeedSets ==
    [][last'.op = "updateSpeed" =>
        /\ ~last'.fault
        /\ cars' = cars
        /\ Len(roads') = Len(roads)
        /\ \A i \in 1 .. Len(roads) :
             roads'[i] = IF roads[i].id = last'.roadId
                         THEN [roads[i] EXCEPT !.speedFactor = last'.factor]
                         ELSE roads[i]
      ]_vars

(* C6 as stated: under fair frames every vehicle eventually leaves the     *)
(* collection unless the router refuses it, whatever the speedFactor of    *)
(* its road and whatever the vehicles ahead of it do.  The vehicle at      *)
(* index k keeps its index until a vehicle at an index <= k is removed, so *)
(* its next event is such a removal or its own refusal.                    *)
C6_EveryVehicleExits ==
    \A k \in 1 .. MaxQueue :
        [](Len(cars) >= k
            => <>(FrameEnd /\ (\/ \E j \in 1 .. k : j \in Removed(calls)
                              \/ k \in Refused(calls))))

(* C6 as amended: on a road whose speedFactor is positive, the vehicle at  *)
(* index k either moves up (a vehicle at an index <= k leaves the          *)
(* collection) or the router refuses it or a vehicle ahead of it; so a     *)
(* vehicle leaves the collection when neither it nor a vehicle ahead of it *)
(* on its road is ever refused.                                            *)
C6_ExitsUnlessRefusedAhead ==
    \A k \in 1 .. MaxQueue :
        []((Len(cars) >= k /\ roads[cars[k].roadIndex + 1].speedFactor > 0)
            => <>(FrameEnd /\ \E j \in 1 .. k : j \in Removed(calls) \cup Refused(calls)))

(* a frame on a road of positive speedFactor in which the router let the   *)
(* head of a queue leave and its follower stayed                           *)
C6_Witness ==
    /\ FrameEnd /\ roads[1].speedFactor > 0
    /\ \E n \in 1 .. Len(calls) : calls[n].idx = 1 /\ calls[n].asked /\ calls[n].ret
    /\ Len(cars) >= 1 /\ cars[1].progress > 0

(* C11 as stated: the constructor has scheduled the first frame in every   *)
(* state from Init on, so every addRoad is a call after the start of the   *)
(* simulation and leaves the road registry unchanged.                      *)
C11_AddRoadNoOpAfterStart ==
    [][last'.op = "addRoad" => roads' = roads]_vars

(* C11 as amended: addRoad registers a new road whenever it is called,     *)
(* also after frames have run: it appends one road at the end of the       *)
(* registry and leaves the roads already registered, the vehicles and the  *)
(* router unchanged.                                                       *)
C11_AddRoadAlwaysAppends ==
    [][last'.op = "addRoad" =>
        /\ Len(roads') = Len(roads) + 1
        /\ SubSeq(roads', 1, Len(roads)) = roads
        /\ roads'[Len(roads')].id \in RoadIds
        /\ cars' = cars
        /\ onCarFinishRoad' = onCarFinishRoad
        /\ ~last'.fault
      ]_vars

(* a road registered after a frame has moved a vehicle on an earlier road *)
C11_Witness ==
    /\ last.op = "addRoad"
    /\ Len(roads) = 2
    /\ \E k \in 1 .. Len(cars) : cars[k].progress > 0

(* the vehicle directly ahead of the vehicle at index k on its road: the   *)
(* nearest earlier index on the same road, 0 when k leads its road         *)
Leader(cs, k) ==
    LET ahead == {j \in 1 .. (k - 1) : cs[j].roadIndex = cs[k].roadIndex}
    IN  IF ahead = {} THEN 0 ELSE CHOOSE j \in ahead : \A m \in ahead : m <= j

(* C12: in a step the lead vehicle of a road advances by base = 0.01 x     *)
(* speedFactor; a follower whose gap to its leader (leader's progress      *)
(* after the leader's own update, times the road length) is below 50 is    *)
(* set to the leader's position minus 50; with 50 <= gap < 110 it advances *)
(* by 0.3 x base; with gap >= 110 it advances by base.  Vehicles that do   *)
(* not reach the junction end the step with that progress.                 *)
C12_FollowingRule ==
    [][last'.op = "animate" =>
        LET ph == Physics(roads, cars) IN
        \A k \in 1 .. Len(cars) :
            LET road == roads[cars[k].roadIndex + 1]
                base == BaseSpeed * road.speedFactor
                j == Leader(cars, k)
                gap == (ph[j].progress - cars[k].progress) * road.len
                new == IF k \in Removed(calls') \cup Refused(calls')
                       THEN ph[k].progress
                       ELSE cars'[NewIndex(calls', k)].progress
            IN  /\ (k \in Removed(calls') \cup Refused(calls')) <=> (ph[k].progress >= One)
                /\ j = 0 => new = cars[k].progress + base
                /\ (j # 0 /\ gap < 50 * One) => new * road.len = ph[j].progress * road.len - 50 * One
                /\ (j # 0 /\ gap >= 50 * One /\ gap < 110 * One)
                      => 10 * new = 10 * cars[k].progress + 3 * base
                /\ (j # 0 /\ gap >= 110 * One) => new = cars[k].progress + base
      ]_vars

(* the end of a frame with three vehicles in a row that did not finish *)
C12_Witness ==
    /\ FrameEnd /\ calls = <<>>
    /\ Len(cars) = 3
    /\ cars[1].progress > cars[2].progress /\ cars[2].progress > cars[3].progress
    /\ cars[3].progress > 0

(* the following-distance clamp fires for the vehicle at index k in the    *)
(* step from the current state                                             *)
ClampFires(k) ==
    /\ Leader(cars, k) # 0
    /\ (Physics(roads, cars)[Leader(cars, k)].progress - cars[k].progress)
          * roads[cars[k].roadIndex + 1].len < SafeDist

(* C13: a vehicle that stays on its road ends a frame with a progress not  *)
(* below the one it had at the end of the previous frame, unless the       *)
(* following-distance clamp fired for it in this frame; a vehicle parked   *)
(* at progress 1 after a refusal is never below its previous progress.     *)
C13_ProgressMonotone ==
    [][/\ last'.op = "animate" =>
            \A k \in (1 .. Len(cars)) \ Removed(calls') :
                /\ ~ClampFires(k) =>
                      cars'[NewIndex(calls', k)].progress >= cars[k].progress
                /\ k \in Refused(calls') =>
                      /\ cars'[NewIndex(calls', k)].progress = One
                      /\ cars'[NewIndex(calls', k)].progress >= cars[k].progress
       /\ last'.op # "animate" =>
            \A k \in 1 .. Len(cars) :
                k <= Len(cars') /\ cars'[k].progress = cars[k].progress
      ]_vars

(* the end of a frame in which a vehicle behind another one was refused    *)
(* and parked at the junction                                              *)
C13_Witness ==
    /\ FrameEnd
    /\ \E n \in 1 .. Len(calls) : ~calls[n].ret /\ calls[n].idx = 2
    /\ Len(cars) >= 2 /\ \E k \in 2 .. Len(cars) : cars[k].progress = One

(* C14: in every reachable state every vehicle's progress is >= 0. *)
C14_ProgressNonNegative ==
    \A k \in 1 .. Len(cars) : cars[k].progress >= 0

(* C15: the transition pass of a step deals exactly once with every        *)
(* vehicle that finished its road in the physics of that step and with no  *)
(* other index, in particular with none beyond the vehicles present when   *)
(* the pass began; every other vehicle stays as the physics left it; a     *)
(* removal takes out the finishing vehicle itself, and the vehicles the    *)
(* router appended are all at the end of the collection afterwards, at     *)
(* progress 0.                                                             *)
C15_PassVisitsOnce ==
    [][last'.op = "animate" =>
        LET ph == Physics(roads, cars)
            fin == {k \in 1 .. Len(cars) : ph[k].progress >= One}
            kept == Len(cars) - Cardinality(Removed(calls'))
        IN  /\ \A n, m \in 1 .. Len(calls') : n # m => calls'[n].idx # calls'[m].idx
            /\ {calls'[n].idx : n \in 1 .. Len(calls')} = fin
            /\ Len(cars') = kept + NumPlaced(calls')
            /\ \A k \in (1 .. Len(cars)) \ Removed(calls') :
                 cars'[NewIndex(calls', k)] =
                    IF k \in Refused(calls')
                    THEN [ph[k] EXCEPT !.progress = One, !.speed = 0]
                    ELSE ph[k]
            /\ \A m \in (kept + 1) .. Len(cars') : cars'[m].progress = 0
      ]_vars

(* a step in which the router placed one finisher on the next road and     *)
(* refused another, so a removal, an append and a refusal met in one pass  *)
C15_Witness ==
    /\ FrameEnd
    /\ \E n, m \in 1 .. Len(calls) : calls[n].placed /\ ~calls[m].ret
    /\ Len(cars) = 2
    /\ cars[1].progress = One /\ cars[2].progress = 0

(* the vehicles of road rIdx alone, in collection order, on a registry     *)
(* that holds only that road                                               *)
Alone(cs, rIdx) ==
    LET only == SelectSeq(cs, LAMBDA c : c.roadIndex = rIdx)
    IN  [n \in 1 .. Len(only) |-> [only[n] EXCEPT !.roadIndex = 0]]

(* the position of the vehicle at index k among the vehicles of its road *)
Rank(cs, k) == Cardinality({j \in 1 .. k : cs[j].roadIndex = cs[k].roadIndex})

(* C16: the car-following phase gives a vehicle the progress it would get  *)
(* if its road were the only road and held only its own vehicles; a        *)
(* vehicle that does not finish ends the step with that progress; and the  *)
(* step leaves every road as it was.                                       *)
C16_RoadsIndependent ==
    [][last'.op = "animate" =>
        /\ roads' = roads
        /\ \A k \in 1 .. Len(cars) :
             LET rIdx == cars[k].roadIndex
                 solo == Physics(<<roads[rIdx + 1]>>, Alone(cars, rIdx))[Rank(cars, k)].progress
             IN  /\ Physics(roads, cars)[k].progress = solo
                 /\ k \notin (Removed(calls') \cup Refused(calls')) =>
                       cars'[NewIndex(calls', k)].progress = solo
      ]_vars

(* the end of a frame that moved vehicles on two different roads *)
C16_Witness ==
    /\ FrameEnd
    /\ Len(cars) = 2 /\ cars[1].roadIndex # cars[2].roadIndex
    /\ cars[1].progress > 0 /\ cars[2].progress > 0

(* the roads registered under an id, as 0-based indices *)
Registered(rs, id) == {i \in 0 .. (Len(rs) - 1) : rs[i + 1].id = id}

(* C17: addRoad appends a road also when its id is already registered;     *)
(* a spawnCar with an id registered more than once binds the new vehicle   *)
(* to the road registered first under that id, and its answer is the one   *)
(* it would give if only the vehicles of that first road existed.          *)
C17_FirstRoadWins ==
    [][/\ last'.op = "addRoad" =>
            /\ Len(roads') = Len(roads) + 1
            /\ SubSeq(roads', 1, Len(roads)) = roads
       /\ (last'.op = "spawnCar" /\ Registered(roads, last'.roadId) # {}) =>
            LET first == CHOOSE i \in Registered(roads, last'.roadId) :
                             \A j \in Registered(roads, last'.roadId) : i <= j
                onFirst == SelectSeq(cars, LAMBDA c : c.roadIndex = first)
            IN  /\ last'.ret => cars'[Len(cars')].roadIndex = first
                /\ last'.ret <=> SpawnCar(roads, onFirst, last'.roadId, last'.color,
                                          last'.existingCar).ret
      ]_vars

(* a vehicle spawned under an id that two roads share *)
C17_Witness ==
    /\ last.op = "spawnCar" /\ last.ret
    /\ Len(roads) = 2 /\ roads[1].id = roads[2].id /\ roads[1].id = last.roadId
    /\ roads[1].len # roads[2].len
    /\ Len(cars) = 2 /\ cars[2].roadIndex = 0 /\ cars[2].progress = 0

(* C18: a spawnCar that returns true leaves a vehicle at progress 0 on its *)
(* road; only a step moves it; and a spawnCar on a road that holds a       *)
(* vehicle at progress 0 returns false.  So a second spawnCar on the same  *)
(* road returns false until a step has run, and within one step at most    *)
(* one finishing vehicle is placed on any one road while the others the    *)
(* router turned away are parked at progress 1.                            *)
C18_MergeExclusion ==
    [][/\ (last'.op = "spawnCar" /\ last'.ret) =>
            /\ cars'[Len(cars')].progress = 0
            /\ cars'[Len(cars')].roadIndex = FindIndex(roads, last'.roadId)
       /\ last'.op # "animate" =>
            /\ Len(cars') >= Len(cars)
            /\ SubSeq(cars', 1, Len(cars)) = cars
       /\ (/\ last'.op = "spawnCar"
           /\ \E k \in 1 .. Len(cars) :
                 cars[k].roadIndex = FindIndex(roads, last'.roadId) /\ cars[k].progress = 0)
          => ~last'.ret
       /\ (/\ last.op = "spawnCar" /\ last.ret /\ last'.op = "spawnCar"
           /\ FindIndex(roads, last'.roadId) = FindIndex(roads, last.roadId))
          => ~last'.ret
       /\ last'.op = "animate" =>
            LET kept == Len(cars) - Cardinality(Removed(calls')) IN
            /\ \A t \in 0 .. (Len(roads) - 1) :
                 Cardinality({m \in (kept + 1) .. Len(cars') : cars'[m].roadIndex = t}) <= 1
            /\ \A k \in Refused(calls') : cars'[NewIndex(calls', k)].progress = One
      ]_vars

(* a step in which two vehicles finished 'Hwy_Top' under the router of     *)
(* initMod2: one was placed on 'Single_Top', the other parked              *)
C18_Witness ==
    /\ FrameEnd /\ onCarFinishRoad = "mod2"
    /\ Len(calls) = 2
    /\ \A n \in 1 .. Len(calls) : calls[n].roadId = "Hwy_Top" /\ calls[n].asked
    /\ \E n, m \in 1 .. Len(calls) : (calls[n].placed /\ calls[n].ret) /\ ~calls[m].ret
    /\ Len(cars) = 2
    /\ cars[1].progress = One /\ roads[cars[1].roadIndex + 1].id = "Hwy_Top"
    /\ cars[2].progress = 0 /\ roads[cars[2].roadIndex + 1].id = "Single_Top"

(* C19: between steps (at the end of every step, and whenever a spawnCar   *)
(* or the next step reads the collection) every vehicle has progress <= 1. *)
C19_ProgressAtMostOne ==
    \A k \in 1 .. Len(cars) : cars[k].progress <= One

(* the end of a step in which one vehicle was let go and another, which    *)
(* the physics had moved past the junction, was refused                    *)
C19_Witness ==
    /\ FrameEnd /\ onCarFinishRoad = "ext"
    /\ Removed(calls) # {} /\ Refused(calls) # {}
    /\ \A k \in 1 .. Len(cars) : cars[k].progress = One
    /\ Len(cars) >= 1
    /\ BaseSpeed * roads[cars[1].roadIndex + 1].speedFactor > 0
====
